---- MODULE Spec2Model ----
(* A model of backend/src/services/email.ts (EmailService) and of the      *)
(* handlers of backend/src/api/routes/email.ts that call it.               *)
(*                                                                         *)
(* Strings are sequences of one-character strings, so that startsWith,     *)
(* match, trim, slice and replace are computed and not assumed.  Decoded   *)
(* base64 payloads are sequences of byte values.                           *)
EXTENDS Integers, Sequences, FiniteSets, TLC

VARIABLES
    \* ParseMessagePart, called on its own
    messagePart, parseResult, parsePc,
    \* GetEmails
    getPc, listed, fetches, emailsData, getOutcome, getReturned,
    \* SendEmail
    sendPc, sendArgs, emailBody, stepLog, sendMailCalls, mailText, promise,
    \* ExecuteBlockCipher / ProcessKeyToLengthEight
    cipherPc, cipherArgs, refinedKey, shellArgs, cipherResult,
    \* ExtractBody / Verification
    verPc, verArgs, emailText, verResult, verOutcome

parseVars == <<messagePart, parseResult, parsePc>>
getVars == <<getPc, listed, fetches, emailsData, getOutcome, getReturned>>
sendVars == <<sendPc, sendArgs, emailBody, stepLog, sendMailCalls, mailText, promise>>
cipherVars == <<cipherPc, cipherArgs, refinedKey, shellArgs, cipherResult>>
verVars == <<verPc, verArgs, emailText, verResult, verOutcome>>
vars == <<parseVars, getVars, sendVars, cipherVars, verVars>>

-----------------------------------------------------------------------------
(* Bounds *)

\* Largest number of nodes of a MessagePart tree handed to ParseMessagePart.
MaxNodes == 4

-----------------------------------------------------------------------------
(* String helpers (String.prototype) *)

\* s.startsWith(prefix)
StartsWith(s, prefix) ==
    /\ Len(s) >= Len(prefix)
    /\ SubSeq(s, 1, Len(prefix)) = prefix

\* Concatenation of a sequence of sequences, in order (push(...x) in a forEach).
RECURSIVE Flatten(_)
Flatten(ss) ==
    IF ss = <<>> THEN <<>> ELSE Head(ss) \o Flatten(Tail(ss))

-----------------------------------------------------------------------------
(* MessagePart trees (gmail_v1.Schema$MessagePart) *)

MULTIPART == <<"m","u","l","t","i","p","a","r","t">>
TEXT_PLAIN == <<"t","e","x","t","/","p","l","a","i","n">>
MULTIPART_MIXED == MULTIPART \o <<"/","m","i","x","e","d">>
MULTIPART_RELATED == MULTIPART \o <<"/","r","e","l","a","t","e","d">>
TEXT_HTML == <<"t","e","x","t","/","h","t","m","l">>
APPLICATION_PDF == <<"a","p","p","l","i","c","a","t","i","o","n","/","p","d","f">>

\* body.data is missing on a part whose content is held as an attachment.
NoData == <<-1>>

\* base64 payloads as sequences of sextets: "QQ==" ("A"), "Qg==" ("B"),
\* "aGVsbG8=" ("hello") and the empty string.
DataA == <<16, 16>>
DataB == <<16, 32>>
DataHello == <<26, 6, 21, 44, 27, 6, 60>>
DataEmpty == <<>>

Leaf(mime, data) == [mimeType |-> mime, data |-> data, parts |-> <<>>]
Container(mime, parts) == [mimeType |-> mime, data |-> NoData, parts |-> parts]

Leaves ==
    {Leaf(TEXT_PLAIN, d) : d \in {DataA, DataB, NoData}}
        \cup {Leaf(TEXT_HTML, DataA), Leaf(APPLICATION_PDF, NoData)}

ContainerTypes == {MULTIPART_MIXED, MULTIPART_RELATED}

RECURSIVE TreesOfSize(_), ForestsOfSize(_)
\* The trees of exactly n nodes.
TreesOfSize(n) ==
    IF n = 1
    THEN Leaves \cup {Container(m, <<>>) : m \in ContainerTypes}
    ELSE {Container(m, f) : m \in ContainerTypes, f \in ForestsOfSize(n - 1)}
\* The sequences of trees of exactly n nodes in all.
ForestsOfSize(n) ==
    IF n = 0
    THEN {<<>>}
    ELSE UNION {{<<t>> \o f : t \in TreesOfSize(k), f \in ForestsOfSize(n - k)}
                    : k \in 1..n}

Trees == UNION {TreesOfSize(n) : n \in 1..MaxNodes}

-----------------------------------------------------------------------------
(* DecodeBase64 *)

\* The sextets before the first '=' (64), where decoding stops.
RECURSIVE BeforePadding(_)
BeforePadding(encodedString) ==
    IF encodedString = <<>> \/ Head(encodedString) = 64 THEN <<>>
    ELSE <<Head(encodedString)>> \o BeforePadding(Tail(encodedString))

\* Buffer.from(encodedString, 'base64').toString(): every 4 sextets give 3
\* bytes, a final group of 2 or 3 sextets gives 1 or 2 bytes; the payloads
\* of the model decode to ASCII, on which toString() is the identity.
DecodeBase64(encodedString) ==
    LET data == BeforePadding(encodedString)
        n == Len(data)
        s(i) == data[i]
        byte(k) ==
            LET g == 4 * ((k - 1) \div 3)
                j == (k - 1) % 3
            IN  CASE j = 0 -> s(g + 1) * 4 + s(g + 2) \div 16
                  [] j = 1 -> (s(g + 2) % 16) * 16 + s(g + 3) \div 4
                  [] j = 2 -> (s(g + 3) % 4) * 64 + s(g + 4)
    IN  [k \in 1..((n * 6) \div 8) |-> byte(k)]

-----------------------------------------------------------------------------
(* ParseMessagePart *)

\* A call either returns {text, attachment} or throws (ok = FALSE): the
\* TypeError of Buffer.from(undefined, 'base64') on a text/plain part
\* without body.data.
Returned(text) == [ok |-> TRUE, text |-> text, attachment |-> <<>>]
Thrown == [ok |-> FALSE, text |-> <<>>, attachment |-> <<>>]

\* The children's texts merged last child first.
MergeResultsReversed(results) ==
    Flatten([i \in 1..Len(results) |-> results[Len(results) + 1 - i].text])

\* results.forEach(r => result.text.push(...r.text)): the children's texts in
\* child order.
MergeResults(results) ==
    Flatten([i \in 1..Len(results) |-> results[i].text])

\* messagePart.mimeType.startsWith('multipart')
IsMultipart(part) == StartsWith(part.mimeType, MULTIPART)

\* messagePart.mimeType === 'text/plain'
IsTextPlain(part) == part.mimeType = TEXT_PLAIN

RECURSIVE ParseMessagePart(_)
ParseMessagePart(part) ==
    IF IsMultipart(part)
    THEN LET results == [i \in 1..Len(part.parts) |-> ParseMessagePart(part.parts[i])]
         IN  IF \E i \in 1..Len(results) : ~results[i].ok
             THEN Thrown
             ELSE Returned(MergeResults(results))
    ELSE IF IsTextPlain(part)
         THEN IF part.data = NoData
              THEN Thrown
              ELSE Returned(<<DecodeBase64(part.data)>>)
         ELSE Returned(<<>>)

NoPart == Leaf(<<>>, NoData)

ParseIdle ==
    /\ messagePart = NoPart
    /\ parseResult = Thrown
    /\ parsePc = "idle"

ParseInit ==
    /\ messagePart \in Trees
    /\ parseResult = Thrown
    /\ parsePc = "call"

ParseCall ==
    /\ parsePc = "call"
    /\ parseResult' = ParseMessagePart(messagePart)
    /\ parsePc' = "done"
    /\ UNCHANGED messagePart

-----------------------------------------------------------------------------
(* Characters, base64 encoding *)

CR == "\r"
LF == "\n"

\* String.prototype.charCodeAt on the characters of the model.
CharCode(c) ==
    CASE c = "a" -> 97
      [] c = "b" -> 98
      [] c = " " -> 32
      [] c = CR -> 13
      [] c = LF -> 10

\* Buffer.from(text): the bytes of an ASCII string.
Bytes(text) == [i \in 1..Len(text) |-> CharCode(text[i])]

\* The '=' that pads a base64 string, beside the sextets 0..63.
Pad == 64

\* String.fromCharCode on the bytes of the model.
CharOf(code) ==
    CASE code = 97 -> "a"
      [] code = 98 -> "b"
      [] code = 32 -> " "
      [] code = 13 -> CR
      [] code = 10 -> LF

\* Buffer.toString() of ASCII bytes.
Chars(bytes) == [i \in 1..Len(bytes) |-> CharOf(bytes[i])]

\* Buffer.from(text).toString('base64'): every 3 bytes give 4 sextets, a final
\* group of 1 or 2 bytes gives 2 or 3 sextets and is padded to 4 with '='.
EncodeBase64(bytes) ==
    LET n == Len(bytes)
        b(i) == IF i <= n THEN bytes[i] ELSE 0
        sextet(k) ==
            LET g == 3 * ((k - 1) \div 4)
                j == (k - 1) % 4
            IN  CASE j = 0 -> b(g + 1) \div 4
                  [] j = 1 -> (b(g + 1) % 4) * 16 + b(g + 2) \div 16
                  [] j = 2 -> IF g + 2 > n THEN Pad
                              ELSE (b(g + 2) % 16) * 4 + b(g + 3) \div 64
                  [] j = 3 -> IF g + 3 > n THEN Pad ELSE b(g + 3) % 64
    IN  [k \in 1..(4 * ((n + 2) \div 3)) |-> sextet(k)]

-----------------------------------------------------------------------------
(* ProcessKeyToLengthEight, ExecuteBlockCipher *)

LENGTH_EIGHT == 8

\* Longest raw passphrase of the model.
MaxKeyLen == 9

RECURSIVE SeqsUpTo(_, _)
\* The sequences over S of length at most n.
SeqsUpTo(S, n) ==
    IF n = 0 THEN {<<>>}
    ELSE LET shorter == SeqsUpTo(S, n - 1)
         IN  shorter \cup {Append(s, c) : s \in {t \in shorter : Len(t) = n - 1}, c \in S}

Keys == SeqsUpTo({"a", "b"}, MaxKeyLen)

\* String.prototype.slice(start, end), 0 <= start <= end.
Slice(s, start, end) ==
    SubSeq(s, start + 1, IF end < Len(s) THEN end ELSE Len(s))

\* The key returned untruncated.
ProcessKeyReturnUnsliced(refined) == refined

\* return refinedKey.slice(0, LENGTH_EIGHT)
ProcessKeyReturn(refined) == Slice(refined, 0, LENGTH_EIGHT)

\* The external cipher/blockCipher.py, as the specification describes it: a
\* deterministic, invertible function of (content, key).  A ciphertext is one
\* opaque token naming the base64 content and the key it was made from.
BlockCipherEncrypt(content, key8) == <<ToString(<<content, key8>>)>>

\* The base64 contents a ciphertext of the model can hold.
CipherContents == {EncodeBase64(Bytes(t)) : t \in SeqsUpTo({"a", "b"}, 2)}

\* Decryption inverts encryption under the same key and yields unreadable
\* content (here the empty base64 string) under any other.
BlockCipherDecrypt(content, key8) ==
    IF \E c \in CipherContents : BlockCipherEncrypt(c, key8) = content
    THEN CHOOSE c \in CipherContents : BlockCipherEncrypt(c, key8) = content
    ELSE <<>>

NoCipherArgs == [content |-> <<>>, key |-> <<>>, encrypt |-> FALSE]

CipherIdle ==
    /\ cipherPc = "idle" /\ cipherArgs = NoCipherArgs /\ refinedKey = <<>>
    /\ shellArgs = <<>> /\ cipherResult = <<>>

\* ExecuteBlockCipher(content, key, encrypt) is called: operation is chosen
\* and ProcessKeyToLengthEight starts with refinedKey = key.
CipherStart(content, key, encrypt) ==
    /\ cipherPc' = "while"
    /\ cipherArgs' = [content |-> content, key |-> key, encrypt |-> encrypt]
    /\ refinedKey' = key
    /\ shellArgs' = <<>>
    /\ cipherResult' = <<>>

\* while (refinedKey.length < LENGTH_EIGHT) refinedKey += key
\* (with key = '' the body leaves refinedKey, and so the whole state, as it was)
KeyWhileBody ==
    /\ cipherPc = "while"
    /\ Len(refinedKey) < LENGTH_EIGHT
    /\ refinedKey' = refinedKey \o cipherArgs.key
    /\ UNCHANGED <<cipherPc, cipherArgs, shellArgs, cipherResult>>

\* The loop ends, the key is sliced and PythonShell.run is invoked with
\* [content, refinedKey, operation].
KeyWhileExit ==
    /\ cipherPc = "while"
    /\ Len(refinedKey) >= LENGTH_EIGHT
    /\ shellArgs' = <<cipherArgs.content, ProcessKeyReturn(refinedKey),
                      IF cipherArgs.encrypt THEN "true" ELSE "false">>
    /\ cipherPc' = "run"
    /\ UNCHANGED <<cipherArgs, refinedKey, cipherResult>>

\* The callback of PythonShell.run: err rejects, a result resolves with its
\* first line.
PythonShellCallback ==
    /\ cipherPc = "run"
    /\ \/ /\ cipherPc' = "rejected"
          /\ cipherResult' = <<>>
       \/ /\ cipherPc' = "resolved"
          /\ cipherResult' = IF cipherArgs.encrypt
                             THEN BlockCipherEncrypt(shellArgs[1], shellArgs[2])
                             ELSE BlockCipherDecrypt(shellArgs[1], shellArgs[2])
    /\ UNCHANGED <<cipherArgs, refinedKey, shellArgs>>

-----------------------------------------------------------------------------
(* Idle values of the other operations *)

GetIdle ==
    /\ getPc = "idle" /\ listed = <<>> /\ fetches = <<>> /\ emailsData = <<>>
    /\ getOutcome = "pending" /\ getReturned = <<>>

NoSendArgs == [plaintext |-> <<>>, key |-> <<>>, encrypt |-> FALSE, signature |-> FALSE]

SendIdle ==
    /\ sendPc = "idle" /\ sendArgs = NoSendArgs /\ emailBody = <<>> /\ stepLog = <<>>
    /\ sendMailCalls = 0 /\ mailText = <<>> /\ promise = "pending"

NoVerArgs ==
    [body |-> <<>>, key |-> <<>>, decrypt |-> FALSE, verifySignature |-> FALSE,
     sent |-> <<>>, form |-> "none"]
NoExtract == [ok |-> FALSE, body |-> <<>>]
NoVerResult == [decrypted_body |-> <<"undefined">>, signature_validity |-> "absent"]

VerIdle ==
    /\ verPc = "idle" /\ verArgs = NoVerArgs /\ emailText = NoExtract
    /\ verResult = NoVerResult /\ verOutcome = "pending"

-----------------------------------------------------------------------------
(* ExecuteBlockCipher on its own *)

CipherInit ==
    /\ cipherPc = "call"
    /\ cipherArgs \in [content : {<<>>}, key : Keys, encrypt : BOOLEAN]
    /\ refinedKey = <<>>
    /\ shellArgs = <<>>
    /\ cipherResult = <<>>

CipherCall ==
    /\ cipherPc = "call"
    /\ CipherStart(cipherArgs.content, cipherArgs.key, cipherArgs.encrypt)

SpecCipherInit == CipherInit /\ ParseIdle /\ GetIdle /\ SendIdle /\ VerIdle
CipherFrame == UNCHANGED <<parseVars, getVars, sendVars, verVars>>
SpecCipherNext ==
    \/ CipherCall /\ CipherFrame
    \/ KeyWhileBody /\ CipherFrame
    \/ KeyWhileExit /\ CipherFrame
    \/ PythonShellCallback /\ CipherFrame
SpecCipher == SpecCipherInit /\ [][SpecCipherNext]_vars

\* Every step that can be taken is eventually taken: the loop and the
\* callback run on the event loop, nothing else competes with them.
FairSpecCipher == SpecCipher /\ WF_vars(SpecCipherNext)

\* The i-th character of key repeated for ever.
Repeated(key, i) == key[((i - 1) % Len(key)) + 1]

\* C7: for every non-empty passphrase, of length below, equal to or above 8,
\* the key handed to the cipher has length exactly 8 and is the first 8
\* characters of the passphrase repeated; it depends on the passphrase alone.
C7_DerivedKeyIsRepeatTruncate ==
    (cipherPc \in {"run", "resolved", "rejected"} /\ cipherArgs.key # <<>>) =>
        /\ Len(shellArgs[2]) = LENGTH_EIGHT
        /\ \A i \in 1..LENGTH_EIGHT : shellArgs[2][i] = Repeated(cipherArgs.key, i)

\* 'ab' has given 'abababab'.
C7_Witness ==
    /\ cipherPc = "run"
    /\ cipherArgs.key = <<"a", "b">>
    /\ shellArgs[2] = <<"a", "b", "a", "b", "a", "b", "a", "b">>

\* A passphrase longer than 8 has been cut to its first 8 characters.
C7_WitnessLong ==
    /\ cipherPc = "run"
    /\ Len(cipherArgs.key) > LENGTH_EIGHT
    /\ shellArgs[2] = SubSeq(cipherArgs.key, 1, LENGTH_EIGHT)

\* C10: every ExecuteBlockCipher call, whatever the passphrase (the empty one
\* included), eventually reaches the invocation of the cipher primitive.
C10_CallReachesCipher == (cipherPc = "call") ~> (cipherPc = "run")

\* The empty passphrase is in the key loop, which leaves refinedKey empty.
C10_EmptyKeyInLoop ==
    /\ cipherPc = "while"
    /\ cipherArgs.key = <<>>
    /\ refinedKey = <<>>

-----------------------------------------------------------------------------
(* GenerateMessageWithSignature, SendEmail *)

\* The marker lines of the signature block, one token each.
BEGIN == "--BEGIN"
END == "--END"

RECURSIVE Sum(_)
Sum(ns) == IF ns = <<>> THEN 0 ELSE Head(ns) + Sum(Tail(ns))

\* GetAsciiValue: the sum of the character codes of the key.
GetAsciiValue(key) == Sum(Bytes(key))

\* The signature the external digital_signature/ecdsa.py computes over text
\* with the seed derived from the key: one opaque token.
Signature(text, seed) == ToString(<<"sig", text, seed>>)

\* The lines 'ecdsa.py sign' prints, as the specification composes an
\* envelope: the text, then the signature between the marker lines.
SignScriptLines(text, seed) == <<text, <<BEGIN>>, <<Signature(text, seed)>>, <<END>>>>

RECURSIVE Join(_, _)
\* Array.prototype.join
Join(lines, sep) ==
    IF lines = <<>> THEN <<>>
    ELSE IF Len(lines) = 1 THEN lines[1]
    ELSE lines[1] \o sep \o Join(Tail(lines), sep)

\* GenerateMessageWithSignature on success: result.join('\n')
GenerateMessageWithSignature(text, key) ==
    Join(SignScriptLines(text, ToString(GetAsciiValue(key))), <<LF>>)

\* The plaintext signed whatever came before.
TextToSignPlain(plaintext, body) == plaintext

\* this.GenerateMessageWithSignature(emailBody, key): the body as it stands
\* after the encrypt step is what gets signed.
TextToSign(plaintext, body) == body

SendPlaintexts == {<<"a">>, <<"a", "b">>, <<"a", LF, "b">>}
SendKeys == {<<>>, <<"a">>, <<"a", "b">>, <<"a", "b", "b", "a", "b", "a", "a", "b", "b">>}

SendInit ==
    /\ sendPc = "call"
    /\ sendArgs \in [plaintext : SendPlaintexts, key : SendKeys,
                     encrypt : BOOLEAN, signature : BOOLEAN]
    /\ emailBody = <<>>
    /\ stepLog = <<>>
    /\ sendMailCalls = 0
    /\ mailText = <<>>
    /\ promise = "pending"

\* Where SendEmail goes once the encrypt step is over.
AfterEncrypt == IF sendArgs.signature THEN "sign" ELSE "transport"

\* The executor starts: emailBody = plaintext and, if encrypt, EncryptText
\* base64-encodes the plaintext and calls ExecuteBlockCipher.
SendCall ==
    /\ sendPc = "call"
    /\ emailBody' = sendArgs.plaintext
    /\ IF sendArgs.encrypt
       THEN /\ CipherStart(EncodeBase64(Bytes(sendArgs.plaintext)), sendArgs.key, TRUE)
            /\ sendPc' = "awaitEncrypt"
       ELSE /\ sendPc' = AfterEncrypt
            /\ UNCHANGED cipherVars
    /\ UNCHANGED <<sendArgs, stepLog, sendMailCalls, mailText, promise>>

\* await this.EncryptText(...) resumes with the ciphertext.
SendEncryptResolved ==
    /\ sendPc = "awaitEncrypt"
    /\ cipherPc = "resolved"
    /\ emailBody' = cipherResult
    /\ stepLog' = Append(stepLog, "encrypt")
    /\ sendPc' = AfterEncrypt
    /\ UNCHANGED <<sendArgs, sendMailCalls, mailText, promise, cipherVars>>

\* await this.EncryptText(...) throws: catch, reject(error).
SendEncryptRejected ==
    /\ sendPc = "awaitEncrypt"
    /\ cipherPc = "rejected"
    /\ stepLog' = Append(stepLog, "encrypt failed")
    /\ promise' = "rejected"
    /\ sendPc' = "done"
    /\ UNCHANGED <<sendArgs, emailBody, sendMailCalls, mailText, cipherVars>>

\* if (signature) emailBody = await this.GenerateMessageWithSignature(...):
\* the script's callback reports err (catch, reject) or the signed lines.
SendSign ==
    /\ sendPc = "sign"
    /\ \/ /\ emailBody' = GenerateMessageWithSignature(
                              TextToSign(sendArgs.plaintext, emailBody), sendArgs.key)
          /\ stepLog' = Append(stepLog, "sign")
          /\ sendPc' = "transport"
          /\ UNCHANGED promise
       \/ /\ stepLog' = Append(stepLog, "sign failed")
          /\ promise' = "rejected"
          /\ sendPc' = "done"
          /\ UNCHANGED emailBody
    /\ UNCHANGED <<sendArgs, sendMailCalls, mailText, cipherVars>>

\* createTransport and transport.sendMail(email, callback); the executor
\* returns.
SendTransport ==
    /\ sendPc = "transport"
    /\ sendMailCalls' = sendMailCalls + 1
    /\ mailText' = emailBody
    /\ stepLog' = Append(stepLog, "send")
    /\ sendPc' = "sending"
    /\ UNCHANGED <<sendArgs, emailBody, promise, cipherVars>>

\* The callback of sendMail: on err it logs and throws, inside the callback,
\* where neither the try/catch of the executor nor reject is reached; else
\* it resolves.
SendMailCallback ==
    /\ sendPc = "sending"
    /\ \/ /\ stepLog' = Append(stepLog, "transport failed")
          /\ UNCHANGED promise
       \/ /\ promise' = "resolved"
          /\ UNCHANGED stepLog
    /\ sendPc' = "done"
    /\ UNCHANGED <<sendArgs, emailBody, sendMailCalls, mailText, cipherVars>>

SpecSendInit == SendInit /\ CipherIdle /\ ParseIdle /\ GetIdle /\ VerIdle
SendFrame == UNCHANGED <<parseVars, getVars, verVars>>
SpecSendNext ==
    \/ SendCall /\ SendFrame
    \/ SendEncryptResolved /\ SendFrame
    \/ SendEncryptRejected /\ SendFrame
    \/ SendSign /\ SendFrame
    \/ SendTransport /\ SendFrame
    \/ SendMailCallback /\ SendFrame
    \/ KeyWhileBody /\ UNCHANGED sendVars /\ SendFrame
    \/ KeyWhileExit /\ UNCHANGED sendVars /\ SendFrame
    \/ PythonShellCallback /\ UNCHANGED sendVars /\ SendFrame
SpecSend == SpecSendInit /\ [][SpecSendNext]_vars

Failed(log) ==
    \E i \in 1..Len(log) : log[i] \in {"encrypt failed", "sign failed", "transport failed"}

\* C2: a SendEmail call that has run to its end has settled: rejected if
\* encryption, signing or the transport failed, resolved otherwise; a failure
\* the sendMail callback reports does not leave the promise pending.
C2_SendSettles ==
    sendPc = "done" =>
        promise = (IF Failed(stepLog) THEN "rejected" ELSE "resolved")

\* The transport reported an error and the call is over.
C2_TransportFailed ==
    /\ sendPc = "done"
    /\ stepLog[Len(stepLog)] = "transport failed"

\* The first 8 characters of the key repeated.
RepeatTruncate(key) == [i \in 1..LENGTH_EIGHT |-> Repeated(key, i)]

\* What the mail must carry for the flags of the call.
ExpectedMailText ==
    LET p == sendArgs.plaintext
        e == IF sendArgs.encrypt
             THEN BlockCipherEncrypt(EncodeBase64(Bytes(p)), RepeatTruncate(sendArgs.key))
             ELSE p
    IN  IF sendArgs.signature
        THEN e \o <<LF, BEGIN, LF, Signature(e, ToString(GetAsciiValue(sendArgs.key))), LF, END>>
        ELSE e

ExpectedSteps ==
    (IF sendArgs.encrypt THEN <<"encrypt">> ELSE <<>>)
        \o (IF sendArgs.signature THEN <<"sign">> ELSE <<>>)
        \o <<"send">>

\* C9: sendMail is invoked at most once, after the enabled steps have
\* completed in the order encrypt, sign, send, with the plaintext, the
\* encrypted plaintext, the signed plaintext or the signed encrypted plaintext
\* as the flags say; it is not invoked if an enabled step failed.
C9_EncryptThenSignThenSend ==
    /\ sendMailCalls <= 1
    /\ (\E i \in 1..Len(stepLog) : stepLog[i] \in {"encrypt failed", "sign failed"})
          => sendMailCalls = 0
    /\ sendMailCalls = 1 =>
          /\ mailText = ExpectedMailText
          /\ Len(stepLog) >= Len(ExpectedSteps)
          /\ SubSeq(stepLog, 1, Len(ExpectedSteps)) = ExpectedSteps

\* A mail with both flags set has been handed to the transport.
C9_Witness ==
    /\ sendMailCalls = 1
    /\ sendArgs.encrypt
    /\ sendArgs.signature
    /\ mailText = ExpectedMailText
    /\ stepLog = <<"encrypt", "sign", "send">>

-----------------------------------------------------------------------------
(* ExtractHeader, ProcessEmail, GetEmails *)

\* Most message IDs one messages.list answer holds in the model.
MaxMsgs == 3

\* A header value is a one-element sequence, null the empty one.
Null == <<>>

Header(name, value) == [name |-> name, value |-> <<value>>]

\* headers.filter(h => h.name === name), in order.
RECURSIVE FilterHeaders(_, _)
FilterHeaders(headers, name) ==
    IF headers = <<>> THEN <<>>
    ELSE (IF Head(headers).name = name THEN <<Head(headers)>> ELSE <<>>)
            \o FilterHeaders(Tail(headers), name)

ExtractHeader(headers, name) ==
    LET header == FilterHeaders(headers, name)
    IN  IF Len(header) = 0 THEN Null ELSE header[1].value

\* The messages of the mailbox, by message ID (gmail.users.messages.get).
Mailbox ==
    <<  \* 1: a single text/plain part
        [payload |-> Leaf(TEXT_PLAIN, DataA),
         headers |-> <<Header("From", "alice"), Header("Subject", "hi"),
                       Header("Date", "mon")>>],
        \* 2: html and plain alternatives, two From headers, no Subject
        [payload |-> Container(MULTIPART_RELATED,
                               <<Leaf(TEXT_HTML, DataA), Leaf(TEXT_PLAIN, DataB)>>),
         headers |-> <<Header("Date", "tue"), Header("From", "bob"),
                       Header("From", "carol")>>],
        \* 3: html only
        [payload |-> Container(MULTIPART_MIXED, <<Leaf(TEXT_HTML, DataA)>>),
         headers |-> <<Header("From", "dave")>>],
        \* 4: an attachment only
        [payload |-> Leaf(APPLICATION_PDF, NoData),
         headers |-> <<>>],
        \* 5: a text/plain part and a text/plain attachment (no body.data)
        [payload |-> Container(MULTIPART_MIXED,
                               <<Leaf(TEXT_PLAIN, DataA), Leaf(TEXT_PLAIN, NoData)>>),
         headers |-> <<Header("From", "erin")>>],
        \* 6: nested: "hello" and an empty text/plain part
        [payload |-> Container(MULTIPART_MIXED,
                               <<Container(MULTIPART_RELATED, <<Leaf(TEXT_PLAIN, DataHello)>>),
                                 Leaf(TEXT_PLAIN, DataEmpty)>>),
         headers |-> <<Header("Subject", "re"), Header("From", "frank")>>] >>

MessageIDs == DOMAIN Mailbox

NoEmail == [sender |-> Null, subject |-> Null, date |-> Null, body |-> <<>>]
EmailResult(email) == [kind |-> "email", email |-> email]
NullResult == [kind |-> "null", email |-> NoEmail]
ThrownResult == [kind |-> "thrown", email |-> NoEmail]

\* text.length === 0
NoText(text) == Len(text) = 0

\* ProcessEmail: null without text, else the Email; its promise rejects if
\* ParseMessagePart throws.
ProcessEmail(email) ==
    LET parsed == ParseMessagePart(email.payload)
    IN  IF ~parsed.ok THEN ThrownResult
        ELSE IF NoText(parsed.text) THEN NullResult
        ELSE EmailResult([sender |-> ExtractHeader(email.headers, "From"),
                          subject |-> ExtractHeader(email.headers, "Subject"),
                          date |-> ExtractHeader(email.headers, "Date"),
                          body |-> Join(parsed.text, <<10>>)])

\* A combinator that waits for every promise and fulfils whatever they did.
PromiseAllIgnoringFailures(statuses) ==
    IF \E i \in 1..Len(statuses) : statuses[i] = "pending" THEN "pending" ELSE "fulfilled"

\* Promise.all over promises that are "pending", "ok" or "failed": rejected as
\* soon as one has failed, fulfilled once all are ok.
PromiseAll(statuses) ==
    IF \E i \in 1..Len(statuses) : statuses[i] = "failed" THEN "rejected"
    ELSE IF \E i \in 1..Len(statuses) : statuses[i] = "pending" THEN "pending"
    ELSE "fulfilled"

\* The list returned with its nulls.
KeepAll(data) == [i \in 1..Len(data) |-> data[i].email]

RECURSIVE FilterNonNull(_)
\* emailsData.filter(emailData => emailData !== null)
FilterNonNull(data) ==
    IF data = <<>> THEN <<>>
    ELSE (IF Head(data).kind # "null" THEN <<Head(data).email>> ELSE <<>>)
            \o FilterNonNull(Tail(data))

\* The sequences of distinct message IDs of length 1..n.
IDLists(n) ==
    {ids \in SeqsUpTo(MessageIDs, n) :
        /\ Len(ids) >= 1
        /\ \A i, j \in 1..Len(ids) : ids[i] = ids[j] => i = j}

GetInit ==
    /\ getPc = "list"
    /\ listed = <<>>
    /\ fetches = <<>>
    /\ emailsData = <<>>
    /\ getOutcome = "pending"
    /\ getReturned = <<>>

\* await gmail.users.messages.list(...) rejects, or the label holds no message
\* (response.data.messages is undefined and .map throws): catch, throw.
GetListFails ==
    /\ getPc = "list"
    /\ getOutcome' = "rejected"
    /\ getPc' = "done"
    /\ UNCHANGED <<listed, fetches, emailsData, getReturned>>

\* The list answers with message IDs and one messages.get per ID is started.
GetList ==
    /\ getPc = "list"
    /\ \E ids \in IDLists(MaxMsgs) :
          /\ listed' = ids
          /\ fetches' = [i \in 1..Len(ids) |-> "pending"]
    /\ getPc' = "fetching"
    /\ UNCHANGED <<emailsData, getOutcome, getReturned>>

\* One messages.get settles, in any order; GetEmails, if it still awaits the
\* first Promise.all, rejects on the first failure and goes on once all are in.
FetchSettle ==
    /\ getPc \in {"fetching", "done"}
    /\ \E i \in 1..Len(fetches), outcome \in {"ok", "failed"} :
          /\ fetches[i] = "pending"
          /\ fetches' = [fetches EXCEPT ![i] = outcome]
    /\ IF getPc = "fetching"
       THEN LET all == PromiseAll(fetches')
            IN  /\ getPc' = CASE all = "rejected" -> "done"
                              [] all = "fulfilled" -> "process"
                              [] OTHER -> "fetching"
                /\ getOutcome' = IF all = "rejected" THEN "rejected" ELSE getOutcome
       ELSE UNCHANGED <<getPc, getOutcome>>
    /\ UNCHANGED <<listed, emailsData, getReturned>>

\* emails.map(email => this.ProcessEmail(email.data)): the next call of the map.
ProcessEmailNext ==
    /\ getPc = "process"
    /\ Len(emailsData) < Len(listed)
    /\ emailsData' = Append(emailsData, ProcessEmail(Mailbox[listed[Len(emailsData) + 1]]))
    /\ UNCHANGED <<getPc, listed, fetches, getOutcome, getReturned>>

\* await Promise.all(...) of the ProcessEmail promises, filter, return.
GetFinish ==
    /\ getPc = "process"
    /\ Len(emailsData) = Len(listed)
    /\ LET all == PromiseAll([i \in 1..Len(emailsData) |->
                     IF emailsData[i].kind = "thrown" THEN "failed" ELSE "ok"])
       IN  IF all = "fulfilled"
           THEN /\ getReturned' = FilterNonNull(emailsData)
                /\ getOutcome' = "resolved"
           ELSE /\ getOutcome' = "rejected"
                /\ UNCHANGED getReturned
    /\ getPc' = "done"
    /\ UNCHANGED <<listed, fetches, emailsData>>

GetFrame == UNCHANGED <<parseVars, sendVars, cipherVars, verVars>>
SpecGetInit == GetInit /\ ParseIdle /\ SendIdle /\ CipherIdle /\ VerIdle
SpecGetNext ==
    \/ GetListFails /\ GetFrame
    \/ GetList /\ GetFrame
    \/ FetchSettle /\ GetFrame
    \/ ProcessEmailNext /\ GetFrame
    \/ GetFinish /\ GetFrame
SpecGet == SpecGetInit /\ [][SpecGetNext]_vars

-----------------------------------------------------------------------------
(* ExtractBody, VerifySignature, Verification *)

\* email.match('--BEGIN')
HasKeyComponent(email) == \E i \in 1..Len(email) : email[i] = BEGIN

\* What '.' does not match.
LineTerminators == {CR, LF}

\* The matches of /(.+)(\r\n--BEGIN)/ as <<i, j>>: group 1 is email[i..j-1], one
\* or more characters none of which ends a line, and "\r\n--BEGIN" starts at j.
BodyRegexMatches(email) ==
    {m \in (1..Len(email)) \X (1..Len(email)) :
        /\ m[1] < m[2]
        /\ \A k \in m[1]..(m[2] - 1) : email[k] \notin LineTerminators
        /\ m[2] + 2 <= Len(email)
        /\ email[m[2]] = CR
        /\ email[m[2] + 1] = LF
        /\ email[m[2] + 2] = BEGIN}

\* What String.prototype.trim removes.
WhiteSpace == {" ", CR, LF}

RECURSIVE TrimStart(_), TrimEnd(_)
TrimStart(s) == IF s # <<>> /\ Head(s) \in WhiteSpace THEN TrimStart(Tail(s)) ELSE s
TrimEnd(s) ==
    IF s # <<>> /\ s[Len(s)] \in WhiteSpace THEN TrimEnd(SubSeq(s, 1, Len(s) - 1)) ELSE s
Trim(s) == TrimEnd(TrimStart(s))

Extracted(body) == [ok |-> TRUE, body |-> body]

\* ExtractBody: with a marker, group 1 of the leftmost match, trimmed, and a
\* TypeError (ok = FALSE) when the regular expression does not match (null[1]);
\* without a marker, the text trimmed.
ExtractBody(email) ==
    IF HasKeyComponent(email)
    THEN LET ms == BodyRegexMatches(email)
         IN  IF ms = {} THEN NoExtract
             ELSE LET m == CHOOSE x \in ms : \A y \in ms : x[1] <= y[1]
                  IN  Extracted(Trim(SubSeq(email, m[1], m[2] - 1)))
    ELSE Extracted(Trim(email))

RECURSIVE ReplaceCRLF(_)
\* replace(/\r\n/g, '\n')
ReplaceCRLF(s) ==
    IF s = <<>> THEN <<>>
    ELSE IF Len(s) >= 2 /\ s[1] = CR /\ s[2] = LF
         THEN <<LF>> \o ReplaceCRLF(SubSeq(s, 3, Len(s)))
         ELSE <<s[1]>> \o ReplaceCRLF(Tail(s))

RECURSIVE ToCRLF(_)
\* What the mail transport does to the line breaks of a text: each becomes CRLF.
ToCRLF(s) ==
    IF s = <<>> THEN <<>>
    ELSE IF Len(s) >= 2 /\ s[1] = CR /\ s[2] = LF
         THEN <<CR, LF>> \o ToCRLF(SubSeq(s, 3, Len(s)))
         ELSE IF s[1] = LF THEN <<CR, LF>> \o ToCRLF(Tail(s))
         ELSE <<s[1]>> \o ToCRLF(Tail(s))

VerKeys == {<<>>, <<"a">>, <<"a", "b">>}

\* The bodies that were sent: plain ones, of one line and of several, and the
\* ciphertext of "a" under "ab".
SentBodies ==
    {<<"a">>, <<"a", "b">>, <<"a", LF, "b">>, <<"a", CR, LF, "b">>,
     BlockCipherEncrypt(EncodeBase64(Bytes(<<"a">>)), ProcessKeyReturn(<<"a", "b", "a", "b", "a", "b", "a", "b">>))}

\* An envelope whose signature is not the one of its body.
Forged(body) == body \o <<LF, BEGIN, LF, "forged", LF, END>>

\* The text a user hands to Verification: a sent body as composed by
\* GenerateMessageWithSignature ("lf"), the same after the transport ("crlf"),
\* with a forged signature ("forged"), or without signature ("unsigned").
VerInputs ==
    {[body |-> CASE form = "lf" -> GenerateMessageWithSignature(b, k)
                 [] form = "crlf" -> ToCRLF(GenerateMessageWithSignature(b, k))
                 [] form = "forged" -> ToCRLF(Forged(b))
                 [] form = "unsigned" -> ToCRLF(b),
      key |-> k, decrypt |-> d, verifySignature |-> v, sent |-> b, form |-> form]
        : b \in SentBodies, k \in VerKeys, d \in BOOLEAN, v \in BOOLEAN,
          form \in {"lf", "crlf", "forged", "unsigned"}}

\* The first line 'ecdsa.py verify' prints, or "error" when the script fails:
\* "True" for an envelope as the signer composed it, "False" otherwise.
VerifyScriptResults(text) ==
    (IF \E b \in SentBodies, k \in VerKeys : text = GenerateMessageWithSignature(b, k)
     THEN {"True"} ELSE {"False"}) \cup {"error"}

VerInit ==
    /\ verPc = "call"
    /\ verArgs \in VerInputs
    /\ emailText = NoExtract
    /\ verResult = NoVerResult
    /\ verOutcome = "pending"

\* Verification starts: ExtractBody (its TypeError rejects the call), then
\* DecryptText calls ExecuteBlockCipher if decrypt.
VerCall ==
    /\ verPc = "call"
    /\ emailText' = ExtractBody(verArgs.body)
    /\ IF ~emailText'.ok
       THEN /\ verOutcome' = "rejected"
            /\ verPc' = "done"
            /\ UNCHANGED cipherVars
       ELSE /\ UNCHANGED verOutcome
            /\ IF verArgs.decrypt
               THEN /\ CipherStart(emailText'.body, verArgs.key, FALSE)
                    /\ verPc' = "awaitDecrypt"
               ELSE /\ verPc' = "afterDecrypt"
                    /\ UNCHANGED cipherVars
    /\ UNCHANGED <<verArgs, verResult>>

\* DecryptText resumes: the base64 the cipher returned is decoded.
VerDecryptResolved ==
    /\ verPc = "awaitDecrypt"
    /\ cipherPc = "resolved"
    /\ verResult' = [verResult EXCEPT !.decrypted_body = Chars(DecodeBase64(cipherResult))]
    /\ verPc' = "afterDecrypt"
    /\ UNCHANGED <<verArgs, emailText, verOutcome, cipherVars>>

\* The cipher failed: Verification rejects.
VerDecryptRejected ==
    /\ verPc = "awaitDecrypt"
    /\ cipherPc = "rejected"
    /\ verOutcome' = "rejected"
    /\ verPc' = "done"
    /\ UNCHANGED <<verArgs, emailText, verResult, cipherVars>>

\* let signature = result[0] === 'True'
SignatureValidity(line) == IF line = "True" THEN "true" ELSE "false"

\* if (verifySignature): VerifySignature(body.trim().replace(/\r\n/g, '\n'));
\* err rejects, else signature_validity = (result[0] === 'True'); return result.
VerVerify ==
    /\ verPc = "afterDecrypt"
    /\ verArgs.verifySignature
    /\ \E line \in VerifyScriptResults(ReplaceCRLF(Trim(verArgs.body))) :
          IF line = "error"
          THEN /\ verOutcome' = "rejected"
               /\ UNCHANGED verResult
          ELSE /\ verOutcome' = "resolved"
               /\ verResult' = [verResult EXCEPT !.signature_validity = SignatureValidity(line)]
    /\ verPc' = "done"
    /\ UNCHANGED <<verArgs, emailText, cipherVars>>

\* Without verifySignature the result is returned as it stands.
VerReturn ==
    /\ verPc = "afterDecrypt"
    /\ ~verArgs.verifySignature
    /\ verOutcome' = "resolved"
    /\ verPc' = "done"
    /\ UNCHANGED <<verArgs, emailText, verResult, cipherVars>>

VerFrame == UNCHANGED <<parseVars, getVars, sendVars>>
SpecVerInit == VerInit /\ CipherIdle /\ ParseIdle /\ GetIdle /\ SendIdle
SpecVerNext ==
    \/ VerCall /\ VerFrame
    \/ VerDecryptResolved /\ VerFrame
    \/ VerDecryptRejected /\ VerFrame
    \/ VerVerify /\ VerFrame
    \/ VerReturn /\ VerFrame
    \/ KeyWhileBody /\ UNCHANGED verVars /\ VerFrame
    \/ KeyWhileExit /\ UNCHANGED verVars /\ VerFrame
    \/ PythonShellCallback /\ UNCHANGED verVars /\ VerFrame
SpecVer == SpecVerInit /\ [][SpecVerNext]_vars

\* The text before the first marker, its trailing line breaks removed.
RECURSIVE TrimBreaks(_)
TrimBreaks(s) ==
    IF s # <<>> /\ s[Len(s)] \in {CR, LF} THEN TrimBreaks(SubSeq(s, 1, Len(s) - 1)) ELSE s
BeforeMarker(text) ==
    LET first == CHOOSE i \in 1..Len(text) :
                    text[i] = BEGIN /\ \A j \in 1..(i - 1) : text[j] # BEGIN
    IN  TrimBreaks(SubSeq(text, 1, first - 1))

ExtractBodyRan == verPc \notin {"idle", "call"}

\* C5: on a text with a begin-marker line ExtractBody returns everything
\* before that line, every line of a body of several lines, trailing line
\* breaks trimmed; on a text without marker it returns the whole text.
C5_BodyIsAllBeforeMarker ==
    ExtractBodyRan =>
        /\ emailText.ok
        /\ emailText.body = IF \E i \in 1..Len(verArgs.body) : verArgs.body[i] = BEGIN
                            THEN BeforeMarker(verArgs.body)
                            ELSE verArgs.body

\* The envelope of the two-line body "a", "b" after the transport: only the
\* last line "b" is returned.
C5_LastLineOnly ==
    /\ ExtractBodyRan
    /\ verArgs.body = ToCRLF(GenerateMessageWithSignature(<<"a", LF, "b">>, <<"a">>))
    /\ emailText = Extracted(<<"b">>)

\* C6: ExtractBody of a composed envelope returns the body that was composed,
\* without error, with bare LF line breaks as well as with CRLF ones (bodies
\* compared with their own CRLF read as LF).
C6_ParseInvertsCompose ==
    (ExtractBodyRan /\ verArgs.form \in {"lf", "crlf"}) =>
        /\ emailText.ok
        /\ ReplaceCRLF(emailText.body) = ReplaceCRLF(verArgs.sent)

\* The envelope of "a" as GenerateMessageWithSignature composes it, with bare
\* LF: ExtractBody throws and Verification rejects.
C6_BareLFThrows ==
    /\ verPc = "done"
    /\ verArgs.form = "lf"
    /\ verArgs.sent = <<"a">>
    /\ ~emailText.ok
    /\ verOutcome = "rejected"

\* C8: Verification(text, key, false, true) of a text without signature block
\* ends with an explicit "no signature" outcome, which is neither the true nor
\* the false of a signature that was checked.
C8_NoSignatureIsExplicit ==
    ( /\ verPc = "done"
      /\ verArgs.form = "unsigned"
      /\ ~verArgs.decrypt
      /\ verArgs.verifySignature )
        => /\ verOutcome = "resolved"
           /\ verResult.signature_validity = "no signature"

\* A text without signature block has been answered signature_validity =
\* false, as a text with a forged signature is.
C8_UnsignedReportedInvalid ==
    /\ verPc = "done"
    /\ verArgs.form = "unsigned"
    /\ ~verArgs.decrypt
    /\ verArgs.verifySignature
    /\ verOutcome = "resolved"
    /\ verResult.signature_validity = "false"

-----------------------------------------------------------------------------
(* ParseMessagePart on its own *)

SpecParseInit == ParseInit /\ GetIdle /\ SendIdle /\ CipherIdle /\ VerIdle
SpecParseNext == ParseCall /\ UNCHANGED <<getVars, sendVars, cipherVars, verVars>>
SpecParse == SpecParseInit /\ [][SpecParseNext]_vars

\* The leaves of a tree in depth-first, left-to-right order, whatever the
\* types of the inner nodes.
RECURSIVE LeavesInOrder(_)
LeavesInOrder(part) ==
    IF part.parts = <<>>
    THEN <<part>>
    ELSE Flatten([i \in 1..Len(part.parts) |-> LeavesInOrder(part.parts[i])])

RECURSIVE SelectPlain(_)
SelectPlain(leaves) ==
    IF leaves = <<>> THEN <<>>
    ELSE (IF Head(leaves).mimeType = TEXT_PLAIN THEN <<Head(leaves)>> ELSE <<>>)
            \o SelectPlain(Tail(leaves))

PlainLeaves(part) == SelectPlain(LeavesInOrder(part))

\* C1: ParseMessagePart returns in text exactly the decoded contents of the
\* text/plain leaves of the tree, in depth-first left-to-right order, multipart
\* nodes contributing their children's results in child order and other
\* leaves nothing; the call throws exactly when one of those leaves carries
\* no body data to decode.
C1_ParseFlattensPlainLeaves ==
    parsePc = "done" =>
        LET plain == PlainLeaves(messagePart)
        IN  IF \E i \in 1..Len(plain) : plain[i].data = NoData
            THEN ~parseResult.ok
            ELSE /\ parseResult.ok
                 /\ parseResult.text = [i \in 1..Len(plain) |-> DecodeBase64(plain[i].data)]

\* "A" below a nested multipart, then "B": the result is <<"A", "B">>.
C1_Witness ==
    /\ parsePc = "done"
    /\ messagePart =
          Container(MULTIPART_MIXED,
                    <<Container(MULTIPART_RELATED, <<Leaf(TEXT_PLAIN, DataA)>>),
                      Leaf(TEXT_PLAIN, DataB)>>)
    /\ parseResult.ok
    /\ parseResult.text = << <<65>>, <<66>> >>

-----------------------------------------------------------------------------
(* GetEmails: the batch *)

\* C3: GetEmails is all-or-nothing: it returns a list only after every fetch
\* and every ProcessEmail has succeeded, and if any of them failed it rejects
\* and returns no list, whatever the order in which the fetches settle.
C3_BatchAllOrNothing ==
    /\ getOutcome = "resolved" =>
          /\ \A i \in 1..Len(fetches) : fetches[i] = "ok"
          /\ Len(emailsData) = Len(listed)
          /\ \A i \in 1..Len(emailsData) : emailsData[i].kind # "thrown"
    /\ getOutcome # "resolved" => getReturned = <<>>
    /\ ( /\ getPc = "done"
         /\ \/ \E i \in 1..Len(fetches) : fetches[i] = "failed"
            \/ \E i \in 1..Len(emailsData) : emailsData[i].kind = "thrown" )
          => getOutcome = "rejected"

\* Every fetch succeeded, one ProcessEmail gave an Email and another one
\* failed: the call is rejected.
C3_Witness ==
    /\ getPc = "done"
    /\ getOutcome = "rejected"
    /\ \A i \in 1..Len(fetches) : fetches[i] = "ok"
    /\ \E i, j \in 1..Len(emailsData) :
          emailsData[i].kind = "thrown" /\ emailsData[j].kind = "email"

\* The first header of that name, if any.
FirstHeader(headers, name) ==
    IF \E i \in 1..Len(headers) : headers[i].name = name
    THEN headers[CHOOSE i \in 1..Len(headers) :
                    /\ headers[i].name = name
                    /\ \A j \in 1..(i - 1) : headers[j].name # name].value
    ELSE Null

\* The Email of a message with text/plain leaves.
ExpectedEmail(m) ==
    LET plain == PlainLeaves(m.payload)
    IN  [sender |-> FirstHeader(m.headers, "From"),
         subject |-> FirstHeader(m.headers, "Subject"),
         date |-> FirstHeader(m.headers, "Date"),
         body |-> Join([i \in 1..Len(plain) |-> DecodeBase64(plain[i].data)], <<10>>)]

RECURSIVE ExpectedEmails(_)
ExpectedEmails(ids) ==
    IF ids = <<>> THEN <<>>
    ELSE (IF PlainLeaves(Mailbox[Head(ids)].payload) # <<>>
          THEN <<ExpectedEmail(Mailbox[Head(ids)])>> ELSE <<>>)
            \o ExpectedEmails(Tail(ids))

\* C4: a message without any text/plain leaf makes ProcessEmail return null,
\* not fail, and GetEmails leaves it out while returning the Emails of the
\* other messages in message-ID order; an Email is produced only for a message
\* with at least one text/plain leaf.
C4_NoPlainTextIsAbsentNotError ==
    /\ \A i \in 1..Len(emailsData) :
          LET plain == PlainLeaves(Mailbox[listed[i]].payload)
          IN  /\ plain = <<>> => emailsData[i] = NullResult
              /\ emailsData[i].kind = "email" => plain # <<>>
    /\ getOutcome = "resolved" => getReturned = ExpectedEmails(listed)

\* A batch has been returned with a message left out and another one kept.
C4_Witness ==
    /\ getOutcome = "resolved"
    /\ \E i \in 1..Len(emailsData) : emailsData[i] = NullResult
    /\ Len(getReturned) >= 1
    /\ Len(getReturned) < Len(listed)

====
